---- MODULE Spec2Model ----
(***************************************************************************)
(* Model of pigan/components/generator.py: the Generator of a physics-     *)
(* informed Wasserstein GAN.  Tensors are modelled by their shape and by   *)
(* the identity of the data they were built from; a network's weights by   *)
(* one integer per Keras model object; a loss by its value together with   *)
(* its derivative with respect to the weights of each of the two networks  *)
(* (what the GradientTape records).                                        *)
(***************************************************************************)
EXTENDS Integers, Sequences, FiniteSets, TLC

\* ---------------------------------------------------------------- bounds
MaxSteps  == 2      \* calls of step
MaxLoads  == 1      \* calls of load
MaxPoints == 2      \* rows of a coordinate array
MaxBatch  == 1      \* batch_size / num_samples
NoiseDim  == 1      \* columns of a noise tensor

\* ------------------------------------------------------ program constants
num_pde  == 100
DimU     == 2
DimE     == 1

VARIABLES
  coord_dim,     \* d: columns of the coordinate arrays the generator is built for
  input_shape,   \* self.input_shape (width of the networks' input)
  generator_u,   \* self.generator_u: the Keras model object it refers to
  generator_E,   \* self.generator_E
  nmodels,       \* number of Keras model objects created so far
  weights,       \* model object -> its trainable variables
  dims,          \* model object -> units of its last Dense layer
  gen_opt,       \* self.gen_opt: number of apply_gradients calls it has run
  traces,        \* tf.function cache of step: input signature -> captured models
  disk,          \* directory -> the two .h5 files
  saved,         \* history: in-memory weights at the last save of each directory
  pc,            \* position inside step
  frame,         \* locals of the running step
  run,           \* the model objects the running graph of step reads and writes
  events,        \* history: phases of the last step, in order
  applied,       \* history: model object -> updates applied by the last step
  w0,            \* history: weights when the last step began
  losses,        \* gen_loss, pde_loss, bc_loss of the last step
  total_loss,
  grads,         \* gradients_of_generators
  ret            \* the last completed operation and the value it returned

vars == << coord_dim, input_shape, generator_u, generator_E, nmodels, weights,
           dims, gen_opt, traces, disk, saved, pc, frame, run,
           events, applied, w0, losses, total_loss, grads, ret >>

MaxModels == 2 + 2 * MaxLoads
ModelIds  == 1..MaxModels
Dirs      == {"model_dir"}

\* ---------------------------------------------------------------- tensors
\* A tensor is its shape and the data it was computed from.
Coord(n, d) == [id |-> n, shape |-> <<n, d>>]

\* tf.tile(X, [k, 1])
Tile(X, k) == [id |-> X.id, shape |-> <<X.shape[1] * k, X.shape[2]>>]

\* tf.concat([a, b], axis=1)
Concat(a, b) == [coords |-> a.id, noise |-> b.id,
                 shape |-> <<a.shape[1], a.shape[2] + b.shape[2]>>]

\* tf.reshape(t, [a, b, -1])
Reshape3(t, a, b) ==
  [t EXCEPT !.shape = <<a, b, (t.shape[1] * t.shape[2]) \div (a * b)>>]

\* self.noise_sampler.sample_noise(n_points, n_samples): the k-th draw the
\* running operation makes; every draw is a fresh random tensor
SampleNoise(k, n_points, n_samples) ==
  [id |-> k, shape |-> <<n_points * n_samples, NoiseDim>>]

\* model(inputs): the output of the Sequential model m on inp
Forward(m, inp) == [model |-> m, input |-> inp, shape |-> <<inp.shape[1], dims[m]>>]

\* ------------------------------------------------------------------ losses
\* A loss is its value and its derivative with respect to the weights of the
\* network the running graph uses as generator_u (du) and as generator_E (dE).
Loss(v, a, b) == [val |-> v, du |-> a, dE |-> b]

Add(x, y) == Loss(x.val + y.val, x.du + y.du, x.dE + y.dE)

Neg(x) == Loss(-x.val, -x.du, -x.dE)

\* tf.reduce_mean of discriminator.discriminator(generated_snapshots);
\* generated_snapshots is computed from generator_u alone.
FakeOutputs == {Loss(1, -1, 0)}

\* self.pde.evaluate_loss(terms, tape)
PdeLosses == {Loss(0, 0, 0), Loss(1, 1, 1)}

\* self.boundary_conditions.evaluate_loss(generator_u, generator_E, tape)
BcLosses == {Loss(2, 1, 1)}

\* Generator._loss
loss_(fake_output, pde_loss, bc_loss) ==
  [gen_loss |-> Neg(fake_output), pde_loss |-> pde_loss, bc_loss |-> bc_loss]

\* Variant of TotalLoss: the boundary-condition term is left out of the sum
TotalLoss_without_bc(l) == Add(l.gen_loss, l.pde_loss)

\* total_loss = gen_loss + pde_loss + bc_loss
TotalLoss(l) == Add(Add(l.gen_loss, l.pde_loss), l.bc_loss)

\* gen_tape.gradient(total_loss, [u variables, E variables])
Gradient(t) == <<t.du, t.dE>>

\* self.gen_opt.apply_gradients(zip(g, model.trainable_variables))
ApplyGradients(w, m, g) == [w EXCEPT ![m] = @ - g]

\* return gen_loss, pde_loss, bc_loss
StepReturnValue(l) == <<l.gen_loss.val, l.pde_loss.val, l.bc_loss.val>>

\* ------------------------------------------------------------ construction
NoLoss   == Loss(0, 0, 0)
NoLosses == [gen_loss |-> NoLoss, pde_loss |-> NoLoss, bc_loss |-> NoLoss]
NoNoise  == [id |-> 0, shape |-> <<0, 0>>]
NoTensor == [model |-> 0, input |-> [coords |-> 0, noise |-> 0, shape |-> <<0, 0>>],
             shape |-> <<0, 0>>]
NoFrame  == [inputs |-> 0, batch_size |-> 0, noise_u |-> NoNoise,
             noise_f |-> NoNoise, generated_f_u |-> NoTensor,
             generated_f_E |-> NoTensor, fake_output |-> NoLoss]
NoRun    == [u |-> 0, E |-> 0]
NoFile   == [arch |-> 0, w |-> 0]
Zero     == [m \in ModelIds |-> 0]
FileNames == {"generator_u.h5", "generator_E.h5"}

\* Generator.__init__: generator_u = _model(input_shape, 2),
\* generator_E = _model(input_shape, 1)
Init ==
  /\ coord_dim \in 1..2
  /\ input_shape = coord_dim + NoiseDim
  /\ generator_u = 1
  /\ generator_E = 2
  /\ nmodels = 2
  /\ weights = Zero
  /\ dims = [m \in ModelIds |-> IF m = 1 THEN DimU ELSE IF m = 2 THEN DimE ELSE 0]
  /\ gen_opt = 0
  /\ traces = [n \in 1..MaxPoints |-> NoRun]
  /\ disk = [d \in Dirs |-> [f \in FileNames |-> NoFile]]
  /\ saved = [d \in Dirs |-> NoRun]
  /\ pc = "idle"
  /\ frame = NoFrame
  /\ run = NoRun
  /\ events = <<>>
  /\ applied = Zero
  /\ w0 = Zero
  /\ losses = NoLosses
  /\ total_loss = NoLoss
  /\ grads = <<0, 0>>
  /\ ret = [op |-> "init", args |-> <<>>, value |-> <<>>]

\* -------------------------------------------------------------------- step
\* The signature tf.function keys the traces of step on: the shapes of the
\* tensors of inputs (batch_size is a scalar tensor, the discriminator and the
\* Generator are the same objects throughout).
Signature(n) == n

\* The models a call of step works on: those read from self when the
\* signature was first traced.
Captured(n) ==
  IF traces[Signature(n)] = NoRun
    THEN [u |-> generator_u, E |-> generator_E]
    ELSE traces[Signature(n)]

\* lines 107-114: the call enters the traced graph and samples the noise
StepBegin(n, batch_size) ==
  /\ pc = "idle"
  /\ gen_opt + 2 <= 2 * MaxSteps
  /\ run' = Captured(n)
  /\ traces' = [traces EXCEPT ![Signature(n)] = Captured(n)]
  /\ frame' = [NoFrame EXCEPT
                 !.inputs = n, !.batch_size = batch_size,
                 !.noise_u = SampleNoise(1, n, batch_size),
                 !.noise_f = SampleNoise(2, n, num_pde)]
  /\ events' = <<"noise">>
  /\ w0' = weights
  /\ pc' = "sampled"
  /\ UNCHANGED << coord_dim, input_shape, generator_u, generator_E, nmodels,
                  weights, dims, gen_opt, disk, saved, applied, losses,
                  total_loss, grads, ret >>

\* lines 116-129: forward passes of generator_u (data and PDE branch),
\* generator_E (PDE branch) and the discriminator
StepForward ==
  /\ pc = "sampled"
  /\ \E f \in FakeOutputs :
       LET X_f_g == Tile(Coord(frame.inputs, coord_dim), num_pde)
           u_f_inputs == Concat(X_f_g, frame.noise_f)
           E_f_inputs == Concat(X_f_g, frame.noise_f)
       IN frame' = [frame EXCEPT !.generated_f_u = Forward(run.u, u_f_inputs),
                                 !.generated_f_E = Forward(run.E, E_f_inputs),
                                 !.fake_output = f]
  /\ events' = Append(events, "forward")
  /\ pc' = "forward"
  /\ UNCHANGED << coord_dim, input_shape, generator_u, generator_E, nmodels,
                  weights, dims, gen_opt, traces, disk, saved, run,
                  applied, w0, losses, total_loss, grads, ret >>

\* lines 131-135: _loss and total_loss; the tensors of the forward passes are
\* not read again
StepLoss ==
  /\ pc = "forward"
  /\ frame' = [NoFrame EXCEPT !.fake_output = frame.fake_output]
  /\ \E p \in PdeLosses, b \in BcLosses :
       /\ losses' = loss_(frame.fake_output, p, b)
       /\ total_loss' = TotalLoss(loss_(frame.fake_output, p, b))
  /\ events' = Append(events, "loss")
  /\ pc' = "loss"
  /\ UNCHANGED << coord_dim, input_shape, generator_u, generator_E, nmodels,
                  weights, dims, gen_opt, traces, disk, saved,
                  run, applied, w0, grads, ret >>

\* lines 137-139
StepGradient ==
  /\ pc = "loss"
  /\ grads' = Gradient(total_loss)
  /\ events' = Append(events, "gradient")
  /\ pc' = "gradient"
  /\ UNCHANGED << coord_dim, input_shape, generator_u, generator_E, nmodels,
                  weights, dims, gen_opt, traces, disk, saved,
                  frame, run, applied, w0, losses, total_loss, ret >>

\* lines 141-142
StepApplyU ==
  /\ pc = "gradient"
  /\ weights' = ApplyGradients(weights, run.u, grads[1])
  /\ applied' = [applied EXCEPT ![run.u] = @ + 1]
  /\ gen_opt' = gen_opt + 1
  /\ events' = Append(events, "update_u")
  /\ pc' = "applied_u"
  /\ UNCHANGED << coord_dim, input_shape, generator_u, generator_E, nmodels,
                  dims, traces, disk, saved, frame, run, w0,
                  losses, total_loss, grads, ret >>

\* lines 143-144
StepApplyE ==
  /\ pc = "applied_u"
  /\ weights' = ApplyGradients(weights, run.E, grads[2])
  /\ applied' = [applied EXCEPT ![run.E] = @ + 1]
  /\ gen_opt' = gen_opt + 1
  /\ events' = Append(events, "update_E")
  /\ pc' = "applied_E"
  /\ UNCHANGED << coord_dim, input_shape, generator_u, generator_E, nmodels,
                  dims, traces, disk, saved, frame, run, w0,
                  losses, total_loss, grads, ret >>

\* lines 146-148: the locals of the call go out of scope
StepReturn ==
  /\ pc = "applied_E"
  /\ ret' = [op |-> "step", args |-> <<>>, value |-> StepReturnValue(losses)]
  /\ frame' = NoFrame
  /\ run' = NoRun
  /\ events' = <<>>
  /\ applied' = Zero
  /\ w0' = Zero
  /\ losses' = NoLosses
  /\ total_loss' = NoLoss
  /\ grads' = <<0, 0>>
  /\ pc' = "idle"
  /\ UNCHANGED << coord_dim, input_shape, generator_u, generator_E, nmodels,
                  weights, dims, gen_opt, traces, disk, saved >>

step ==
  \/ \E n \in 1..MaxPoints, b \in 1..MaxBatch : StepBegin(n, b)
  \/ StepForward
  \/ StepLoss
  \/ StepGradient
  \/ StepApplyU
  \/ StepApplyE
  \/ StepReturn

\* ---------------------------------------------------------------- generate
\* Variant of generate: the noise is drawn again for generator_E
generate_resample(n, d, num_samples) ==
  /\ pc = "idle"
  /\ LET noise == SampleNoise(1, n, num_samples)
         X_g == Tile(Coord(n, d), num_samples)
         u_inputs == Concat(X_g, noise)
         E_inputs == Concat(X_g, SampleNoise(2, n, num_samples))
         generated_u == Forward(generator_u, u_inputs)
         generated_E == Forward(generator_E, E_inputs)
     IN IF u_inputs.shape[2] = input_shape
          THEN ret' = [op |-> "generate", args |-> <<n, d, num_samples>>,
                       value |-> <<Reshape3(generated_u, num_samples, n),
                                   Reshape3(generated_E, num_samples, n)>>]
          ELSE \* the Input layer rejects a tensor of another width
               ret' = [op |-> "generate raised", args |-> <<n, d, num_samples>>,
                       value |-> <<>>]
  /\ UNCHANGED << coord_dim, input_shape, generator_u, generator_E, nmodels,
                  weights, dims, gen_opt, traces, disk, saved, pc, frame, run,
                  events, applied, w0, losses, total_loss, grads >>

\* Variant of generate: the networks are built anew before sampling
generate_rebuild(n, d, num_samples) ==
  /\ pc = "idle"
  /\ weights' = [weights EXCEPT ![generator_u] = 0, ![generator_E] = 0]
  /\ LET noise == SampleNoise(1, n, num_samples)
         X_g == Tile(Coord(n, d), num_samples)
         u_inputs == Concat(X_g, noise)
         E_inputs == Concat(X_g, noise)
         generated_u == Forward(generator_u, u_inputs)
         generated_E == Forward(generator_E, E_inputs)
     IN IF u_inputs.shape[2] = input_shape
          THEN ret' = [op |-> "generate", args |-> <<n, d, num_samples>>,
                       value |-> <<Reshape3(generated_u, num_samples, n),
                                   Reshape3(generated_E, num_samples, n)>>]
          ELSE \* the Input layer rejects a tensor of another width
               ret' = [op |-> "generate raised", args |-> <<n, d, num_samples>>,
                       value |-> <<>>]
  /\ UNCHANGED << coord_dim, input_shape, generator_u, generator_E, nmodels,
                  dims, gen_opt, traces, disk, saved, pc, frame, run,
                  events, applied, w0, losses, total_loss, grads >>

\* Generator.generate(X, num_samples), X of shape [n, d]
generate(n, d, num_samples) ==
  /\ pc = "idle"
  /\ LET noise == SampleNoise(1, n, num_samples)
         X_g == Tile(Coord(n, d), num_samples)
         u_inputs == Concat(X_g, noise)
         E_inputs == Concat(X_g, noise)
         generated_u == Forward(generator_u, u_inputs)
         generated_E == Forward(generator_E, E_inputs)
     IN IF u_inputs.shape[2] = input_shape
          THEN ret' = [op |-> "generate", args |-> <<n, d, num_samples>>,
                       value |-> <<Reshape3(generated_u, num_samples, n),
                                   Reshape3(generated_E, num_samples, n)>>]
          ELSE \* the Input layer rejects a tensor of another width
               ret' = [op |-> "generate raised", args |-> <<n, d, num_samples>>,
                       value |-> <<>>]
  /\ UNCHANGED << coord_dim, input_shape, generator_u, generator_E, nmodels,
                  weights, dims, gen_opt, traces, disk, saved, pc, frame, run,
                  events, applied, w0, losses, total_loss, grads >>

\* Generator.__call__(gen_input, noise): the caller supplies the noise
call(n, k) ==
  /\ pc = "idle"
  /\ LET gen_input == Coord(n, coord_dim)
         noise == [id |-> k, shape |-> <<n, NoiseDim>>]
         u_pred == Forward(generator_u, Concat(gen_input, noise))
         E_pred == Forward(generator_E, Concat(gen_input, noise))
     IN ret' = [op |-> "call", args |-> <<n, k>>, value |-> <<u_pred, E_pred>>]
  /\ UNCHANGED << coord_dim, input_shape, generator_u, generator_E, nmodels,
                  weights, dims, gen_opt, traces, disk, saved, pc,
                  frame, run, events, applied, w0, losses, total_loss, grads >>

\* ------------------------------------------------------------- persistence
\* model.save(path): architecture and weights
SaveModel(m) == [arch |-> dims[m], w |-> weights[m]]

\* The files Generator.save writes
SavedFiles == [f \in FileNames |->
                 IF f = "generator_u.h5" THEN SaveModel(generator_u)
                                         ELSE SaveModel(generator_E)]

\* Generator.save(save_dir)
save(dir) ==
  /\ pc = "idle"
  /\ disk' = [disk EXCEPT ![dir] = SavedFiles]
  /\ saved' = [saved EXCEPT ![dir] = [u |-> weights[generator_u],
                                      E |-> weights[generator_E]]]
  /\ ret' = [op |-> "save", args |-> <<dir>>, value |-> <<>>]
  /\ UNCHANGED << coord_dim, input_shape, generator_u, generator_E, nmodels,
                  weights, dims, gen_opt, traces, pc, frame, run,
                  events, applied, w0, losses, total_loss, grads >>

\* Variant of LoadedU: generator_u is read from generator_E's file
LoadedU_swapped(dir) == disk[dir]["generator_E.h5"]

\* The file load_model reads for generator_u, and for generator_E
LoadedU(dir) == disk[dir]["generator_u.h5"]

LoadedE(dir) == disk[dir]["generator_E.h5"]

\* Generator.load(model_dir): load_model builds two new model objects
load(dir) ==
  /\ pc = "idle"
  /\ LoadedU(dir) # NoFile
  /\ LoadedE(dir) # NoFile
  /\ nmodels + 2 <= MaxModels
  /\ nmodels' = nmodels + 2
  /\ generator_u' = nmodels + 1
  /\ generator_E' = nmodels + 2
  /\ weights' = [weights EXCEPT ![nmodels + 1] = LoadedU(dir).w,
                                ![nmodels + 2] = LoadedE(dir).w]
  /\ dims' = [dims EXCEPT ![nmodels + 1] = LoadedU(dir).arch,
                          ![nmodels + 2] = LoadedE(dir).arch]
  /\ ret' = [op |-> "load", args |-> <<dir>>, value |-> <<>>]
  /\ UNCHANGED << coord_dim, input_shape, gen_opt, traces, disk,
                  saved, pc, frame, run, events, applied, w0, losses,
                  total_loss, grads >>

Next ==
  \/ step
  \/ \E n \in 1..MaxPoints, d \in 1..2, k \in 1..MaxBatch : generate(n, d, k)
  \/ \E n \in 1..MaxPoints, k \in 1..2 : call(n, k)
  \/ \E dir \in Dirs : save(dir)
  \/ \E dir \in Dirs : load(dir)

Spec == Init /\ [][Next]_vars

\* ------------------------------------------------------------------ claims
StepOrder == <<"noise", "forward", "loss", "gradient", "update_u", "update_E">>

\* C1: every call of step runs noise sampling, the forward passes, the loss,
\* the gradient and then the updates, in this order; no weight changes before
\* the losses are computed; and when the step completes the optimizer has
\* applied exactly one update to generator_u and exactly one to generator_E.
C1_StepOrderAndOneUpdateEach ==
  /\ pc \in {"sampled", "forward", "loss", "gradient"} => weights = w0
  /\ pc = "applied_E" =>
       /\ events = StepOrder
       /\ applied[generator_u] = 1
       /\ applied[generator_E] = 1

\* C2: the gradients step applies to the two networks are those of the sum of
\* the three terms of that step: the negated mean of the discriminator's
\* output, the PDE loss and the boundary-condition loss.
C2_AppliedLossIsSumOfThreeTerms ==
  pc = "applied_E" =>
    /\ losses.gen_loss.val = -frame.fake_output.val
    /\ total_loss.val =
         losses.gen_loss.val + losses.pde_loss.val + losses.bc_loss.val
    /\ weights[run.u] = w0[run.u] -
         (losses.gen_loss.du + losses.pde_loss.du + losses.bc_loss.du)
    /\ weights[run.E] = w0[run.E] -
         (losses.gen_loss.dE + losses.pde_loss.dE + losses.bc_loss.dE)

\* C2 witness: a step has applied both updates with a non-zero PDE term
C2_Witness ==
  /\ pc = "applied_E"
  /\ losses.pde_loss.du = 1
  /\ weights[run.u] # w0[run.u]
  /\ weights[run.E] # w0[run.E]

\* C3: step returns the pair (gen_loss, pde_loss).
C3_StepReturnsPair ==
  ret.op = "step" => Len(ret.value) = 2

\* C4: generate(X, num_samples) with X of shape [N, d] returns u_samples of
\* shape [num_samples, N, d] and E_samples of shape [num_samples, N, 1].
C4_GenerateShapes ==
  ret.op = "generate" =>
    /\ ret.value[1].shape = <<ret.args[3], ret.args[1], ret.args[2]>>
    /\ ret.value[2].shape = <<ret.args[3], ret.args[1], 1>>

\* C5: a call of generate changes no weight of any network, not the optimizer,
\* not the models the Generator refers to and not the traces of step.
C5_GenerateIsInferenceOnly ==
  [][(ret' # ret /\ ret'.op \in {"generate", "generate raised"}) =>
       /\ weights' = weights
       /\ dims' = dims
       /\ gen_opt' = gen_opt
       /\ generator_u' = generator_u
       /\ generator_E' = generator_E
       /\ traces' = traces]_vars

\* C5 witness: a step begins after a generate that followed an earlier step,
\* and sees the weights that earlier step left
C5_Witness ==
  /\ pc = "sampled"
  /\ ret.op = "generate"
  /\ gen_opt = 2
  /\ w0[generator_u] # 0

\* C6: after load(dir) generator_u and generator_E hold the weights they had
\* in memory at the last save(dir), each from its own file, whatever steps
\* ran in between; and save changes nothing in memory.
C6_SaveLoadRoundTrip ==
  /\ [](ret.op = "load" /\ pc = "idle" =>
          /\ weights[generator_u] = saved[ret.args[1]].u
          /\ weights[generator_E] = saved[ret.args[1]].E
          /\ dims[generator_u] = DimU
          /\ dims[generator_E] = DimE)
  /\ [][(ret' # ret /\ ret'.op = "save") =>
          /\ weights' = weights
          /\ dims' = dims
          /\ generator_u' = generator_u
          /\ generator_E' = generator_E]_vars

\* C6 witness: a load after a save with a step between the two, so that the
\* loaded weights differ from those of the models load replaced
C6_Witness ==
  /\ ret.op = "load"
  /\ pc = "idle"
  /\ weights[generator_u] # 0
  /\ weights[generator_u] # weights[1]
  /\ weights[generator_E] # weights[2]

\* C7: generate, __call__ and the PDE branch of step evaluate generator_u and
\* generator_E on the same concatenation of the same coordinates and the same
\* noise draw.
C7_JointInputs ==
  /\ ret.op \in {"generate", "call"} => ret.value[1].input = ret.value[2].input
  /\ pc = "forward" => frame.generated_f_u.input = frame.generated_f_E.input

\* C7 witness: the forward passes of a step that follows a generate
C7_Witness ==
  /\ ret.op = "generate"
  /\ ret.value[1].input.noise = 1
  /\ pc = "forward"
  /\ frame.generated_f_u.input.noise = 2

\* C8: a step issued after load computes with, and updates, the models load
\* installed.
C8_StepUsesCurrentModels ==
  pc # "idle" => run = [u |-> generator_u, E |-> generator_E]

====
